---- MODULE Spec2Model ----
(***************************************************************************)
(* A model of pcups (src/src/pcups/api.py): the Job, Printer and CUPS      *)
(* wrapper classes over a cups.Connection.  The connection is the external *)
(* collaborator: the set of print queues it knows is state, the replies of *)
(* its other calls are inputs of the operation that makes the call.        *)
(***************************************************************************)
EXTENDS Integers, Sequences, FiniteSets, TLC

VARIABLES
    printers,      \* queue names conn.getPrinters() reports
    p_name,        \* Printer._name
    p_job_id,      \* Printer.job_id
    p_attributes,  \* Printer.attributes
    p_device_uri,  \* Printer.device_uri
    p_location,    \* Printer.location
    job_id,        \* Job.job_id
    spooldir,      \* names of the entries of /var/spool/cups
    args,          \* arguments of the last operation
    result,        \* outcome of the last operation: what it returned or raised
    calls          \* the connection calls the last operation made, in order,
                   \* each with what the connection answered

vars == <<printers, p_name, p_job_id, p_attributes, p_device_uri, p_location,
          job_id, spooldir, args, result, calls>>

printerVars == <<p_name, p_job_id, p_attributes, p_device_uri, p_location>>

(***************************************************************************)
(* Bounds of the model.                                                    *)
(***************************************************************************)
MaxJobId == 2
MaxNameLen == 4
MaxEntries == 1

(***************************************************************************)
(* Python values.  Values of different Python types are records with       *)
(* different fields, so that None, an int and a str are never equal.       *)
(***************************************************************************)
None == [none |-> TRUE]
PyInt(n) == [int |-> n]
PyStr(s) == [str |-> s]
PyList(l) == [list |-> l]

IsInt(v) == DOMAIN v = {"int"}
IsStr(v) == DOMAIN v = {"str"}
IsList(v) == DOMAIN v = {"list"}

RECURSIVE JoinRepr(_)
JoinRepr(l) ==
    IF l = <<>> THEN ""
    ELSE IF Len(l) = 1 THEN "'" \o Head(l) \o "'"
    ELSE "'" \o Head(l) \o "', " \o JoinRepr(Tail(l))

\* "{}".format(v)
Format(v) ==
    IF v = None THEN "None"
    ELSE IF IsInt(v) THEN ToString(v.int)
    ELSE IF IsStr(v) THEN v.str
    ELSE "[" \o JoinRepr(v.list) \o "]"

(***************************************************************************)
(* Outcomes of an operation.                                               *)
(***************************************************************************)
Return(op, v) == [op |-> op, exc |-> "", msg |-> "", value |-> v]
Raise(op, e, m) == [op |-> op, exc |-> e, msg |-> m, value |-> None]
Call(method, argv, reply) == [method |-> method, args |-> argv, reply |-> reply]

(***************************************************************************)
(* What the connection can answer.  A call that raises cups.IPPError       *)
(* answers IPPError.                                                       *)
(***************************************************************************)
IPPError == [raised |-> "cups.IPPError"]
QueueNames == {"A", "B"}
JobIds == 1..MaxJobId
JobStateCodes == 2..10
PrinterStateCodes == 2..6
\* a state-reasons value is a list of keywords, or for a job a single keyword
ReasonsValues == {PyList(<<"none">>), PyList(<<"paused">>), PyStr("none")}
PrinterReasonsValues == {PyList(<<"none">>), PyList(<<"paused">>)}
ConnReplies == {None, IPPError}
PrintFileReplies == {IPPError} \cup {PyInt(i) : i \in JobIds}
Filenames == {"a.txt"}

DeviceUri(n) == "usb://" \o n
Location(n) == "room-" \o n

JobAttributes(state, reasons) ==
    ("job-state" :> PyInt(state)) @@ ("job-state-reasons" :> reasons)

JobAttributesReplies ==
    {IPPError} \cup
    {JobAttributes(state, reasons) : state \in JobStateCodes, reasons \in ReasonsValues}

PrinterAttributes(n, state, reasons) ==
    ("printer-state" :> PyInt(state)) @@ ("printer-state-reasons" :> reasons)
    @@ ("device-uri" :> PyStr(DeviceUri(n))) @@ ("printer-location" :> PyStr(Location(n)))

PrinterAttributesReplies(n) ==
    {PrinterAttributes(n, state, reasons) :
        state \in PrinterStateCodes, reasons \in PrinterReasonsValues}

getPrinters(queues) == Call("getPrinters", <<>>, [set |-> queues])

(***************************************************************************)
(* Status translation, shared by Job.status and Printer.status             *)
(***************************************************************************)
\* dict.get(key): the value, or None when the key is absent; never KeyError
DictGet(d, key) == IF key \in DOMAIN d THEN PyStr(d[key]) ELSE None

\* StatusOutput with the reasons compared to 'none' instead of ['none']
StatusOutput_str_none(op, label, reasons) ==
    IF reasons = PyStr("none") THEN Return(op, label)
    ELSE IF label = None
         THEN Raise(op, "TypeError", "unsupported operand type(s) for +")
         ELSE Return(op, PyStr(label.str \o " - " \o Format(reasons)))

\* label if reasons == ['none'] else label + " - {}".format(reasons),
\* inside try ... except KeyError: 'Not detected.'
StatusOutput(op, label, reasons) ==
    LET body ==
            IF reasons = PyList(<<"none">>) THEN Return(op, label)
            ELSE IF label = None
                 THEN Raise(op, "TypeError", "unsupported operand type(s) for +")
                 ELSE Return(op, PyStr(label.str \o " - " \o Format(reasons)))
    IN  IF body.exc = "KeyError" THEN Return(op, PyStr("Not detected.")) ELSE body

(***************************************************************************)
(* CUPS                                                                    *)
(***************************************************************************)
\* def get_job_attributes(self): the method takes no job id.  argv is the
\* sequence of arguments of the call.  One argument: the call itself raises
\* TypeError.  None: jobid is a local that int(jobid) reads before it is
\* assigned, UnboundLocalError, which except ValueError does not catch.
\* Either way conn.getJobAttributes is not reached.
get_job_attributes(argv) ==
    IF Len(argv) # 0
    THEN Raise("CUPS.get_job_attributes", "TypeError",
               "get_job_attributes() takes 1 positional argument but 2 were given")
    ELSE LET body == Raise("CUPS.get_job_attributes", "UnboundLocalError",
                           "local variable 'jobid' referenced before assignment")
         IN  IF body.exc = "ValueError"
             THEN Raise("CUPS.get_job_attributes", "ValueError",
                        "Job id should be interger, str is given.")
             ELSE body

JobIdArguments ==
    {<<>>} \cup {<<PyInt(i)>> : i \in JobIds} \cup {<<PyStr("1")>>, <<PyStr("abc")>>}

CUPSGetJobAttributes ==
    /\ \E argv \in JobIdArguments :
          /\ args' = argv
          /\ result' = get_job_attributes(argv)
    /\ calls' = <<>>
    /\ UNCHANGED <<printers, printerVars, job_id, spooldir>>

(***************************************************************************)
(* Job                                                                     *)
(***************************************************************************)
job_states ==
    (3 :> "Pending") @@ (4 :> "Pending-held") @@ (5 :> "Processing")
    @@ (6 :> "Processing-stopped") @@ (7 :> "Canceled") @@ (8 :> "Aborted")
    @@ (9 :> "Completed")

JobInit(id) ==
    /\ job_id' = PyInt(id)
    /\ args' = <<PyInt(id)>>
    /\ result' = Return("Job.__init__", None)
    /\ calls' = <<>>
    /\ UNCHANGED <<printers, printerVars, spooldir>>

\* JobStatusResult without the try ... except cups.IPPError
JobStatusResult_uncaught(reply) ==
    IF reply = IPPError
    THEN Raise("Job.status", "IPPError", "")
    ELSE StatusOutput("Job.status",
                      DictGet(job_states, reply["job-state"].int),
                      reply["job-state-reasons"])

\* reply is what conn.getJobAttributes(job_id) answers.  Job.attributes holds
\* the reply for the rest of the call only: no other method reads it.
JobStatusResult(reply) ==
    IF reply = IPPError
    THEN Raise("Job.status", "JobNotFoundError",
               "Job " \o Format(job_id) \o " does not exist.")
    ELSE LET attributes == reply
             state == attributes["job-state"]
             reasons == attributes["job-state-reasons"]
         IN  StatusOutput("Job.status", DictGet(job_states, state.int), reasons)

JobStatus ==
    /\ \E reply \in JobAttributesReplies :
          /\ calls' = <<Call("getJobAttributes", <<job_id>>, reply)>>
          /\ result' = JobStatusResult(reply)
    /\ args' = <<>>
    /\ UNCHANGED <<printers, printerVars, job_id, spooldir>>

JobCancelResult(reply) ==
    IF reply = IPPError
    THEN Raise("Job.cancel", "JobCompletedError",
               "Job " \o Format(job_id) \o " has been completed.")
    ELSE Return("Job.cancel", None)

JobCancel ==
    /\ \E reply \in ConnReplies :
          /\ calls' = <<Call("cancelJob", <<job_id>>, reply)>>
          /\ result' = JobCancelResult(reply)
    /\ args' = <<>>
    /\ UNCHANGED <<printers, printerVars, job_id, spooldir>>

JobRestartResult(reply) ==
    IF reply = IPPError
    THEN Raise("Job.restart", "JobDocumentNotAvailableError",
               "Job's " \o Format(job_id) \o " document does not exist.")
    ELSE Return("Job.restart", None)

JobRestart ==
    /\ \E reply \in ConnReplies :
          /\ calls' = <<Call("restartJob", <<job_id>>, reply)>>
          /\ result' = JobRestartResult(reply)
    /\ args' = <<>>
    /\ UNCHANGED <<printers, printerVars, job_id, spooldir>>

(***************************************************************************)
(* Job.list.  A file name is a sequence of characters.                     *)
(***************************************************************************)
Chars == {"c", "d", "0", "1"}
Digits == {"0", "1"}
DigitValue(ch) == IF ch = "1" THEN 1 ELSE 0

FileNames == UNION {[1..n -> Chars] : n \in 1..MaxNameLen}

\* a directory holds each name once; the sequence is the order of the listing
IsSpoolDir(d) == \A i, j \in DOMAIN d : d[i] = d[j] => i = j

RECURSIVE DecimalValue(_)
DecimalValue(s) ==
    IF s = <<>> THEN 0
    ELSE 10 * DecimalValue(SubSeq(s, 1, Len(s) - 1)) + DigitValue(s[Len(s)])

\* int(s) of a str over Chars: the decimal value of a non-empty string of
\* digits, ValueError otherwise
int(s) ==
    IF s # <<>> /\ \A i \in DOMAIN s : s[i] \in Digits
    THEN [exc |-> "", value |-> PyInt(DecimalValue(s))]
    ELSE [exc |-> "ValueError", value |-> None]

\* for index, char in enumerate(filename), from index on
RECURSIVE job_number_from(_, _)
job_number_from(filename, index) ==
    IF index > Len(filename) THEN [exc |-> "", value |-> None]
    ELSE IF filename[index] \notin {"c", "0"}
         THEN int(SubSeq(filename, index, Len(filename)))
         ELSE job_number_from(filename, index + 1)

\* job_number as int(filename.strip('c0')): zeros are cut at the end too
RECURSIVE strip_c0(_)
strip_c0(s) ==
    IF s = <<>> THEN s
    ELSE IF Head(s) \in {"c", "0"} THEN strip_c0(Tail(s))
    ELSE IF s[Len(s)] \in {"c", "0"} THEN strip_c0(SubSeq(s, 1, Len(s) - 1))
    ELSE s

job_number_strip(filename) ==
    IF strip_c0(filename) = <<>> THEN [exc |-> "", value |-> None]
    ELSE int(strip_c0(filename))

job_number(filename) == job_number_from(filename, 1)

\* spooldir.glob('c*'): the entries whose name starts with c
glob_c(dir) == SelectSeq(dir, LAMBDA name : name[1] = "c")

\* [Job(job_number(controlfile.name)) for controlfile in ...]: the job_id of
\* each Job in order, or the first exception a job_number raises
RECURSIVE list_jobs(_)
list_jobs(files) ==
    IF files = <<>> THEN [exc |-> "", jobs |-> <<>>]
    ELSE LET n == job_number(Head(files))
             rest == list_jobs(Tail(files))
         IN  IF n.exc # "" THEN [exc |-> n.exc, jobs |-> <<>>]
             ELSE IF rest.exc # "" THEN rest
             ELSE [exc |-> "", jobs |-> <<n.value>> \o rest.jobs]

JobListResult(dir) ==
    LET l == list_jobs(glob_c(dir))
    IN  IF l.exc # ""
        THEN Raise("Job.list", l.exc, "invalid literal for int() with base 10")
        ELSE Return("Job.list", PyList(l.jobs))

JobList ==
    /\ result' = JobListResult(spooldir)
    /\ args' = <<>>
    /\ calls' = <<>>
    /\ UNCHANGED <<printers, printerVars, job_id, spooldir>>

(***************************************************************************)
(* Printer                                                                 *)
(***************************************************************************)
default_message == "Unable to locate the printer."

printer_states == (3 :> "Idle") @@ (4 :> "Processing") @@ (5 :> "Stopped")

\* Printer.valid: self.name in self.conn.getPrinters()
valid(name, queues) == name \in queues

\* Printer.name setter.  self is the object's fields before the assignment,
\* reply what conn.getPrinterAttributes(name) answers (asked only when valid).
name_setter(self, name, queues, reply) ==
    IF valid(name, queues)
    THEN [self EXCEPT !.name = name,
                      !.attributes = reply,
                      !.device_uri = reply["device-uri"],
                      !.location = reply["printer-location"]]
    ELSE [self EXCEPT !.name = name]

name_setter_calls(name, queues, reply) ==
    IF valid(name, queues)
    THEN <<getPrinters(queues), Call("getPrinterAttributes", <<PyStr(name)>>, reply)>>
    ELSE <<getPrinters(queues)>>

\* Printer.__init__: the fields before self.name = name
NewPrinter ==
    [name |-> "", job_id |-> None, attributes |-> None, device_uri |-> None,
     location |-> None]

Self ==
    [name |-> p_name, job_id |-> p_job_id, attributes |-> p_attributes,
     device_uri |-> p_device_uri, location |-> p_location]

SelfBecomes(self) ==
    /\ p_name' = self.name
    /\ p_job_id' = self.job_id
    /\ p_attributes' = self.attributes
    /\ p_device_uri' = self.device_uri
    /\ p_location' = self.location

\* the replies that make a difference: one only when the call is not made
RepliesFor(name, queues) ==
    IF valid(name, queues) THEN PrinterAttributesReplies(name)
    ELSE {PrinterAttributes(name, 3, PyList(<<"none">>))}

PrinterInit(name) ==
    /\ \E reply \in RepliesFor(name, printers) :
          /\ SelfBecomes(name_setter(NewPrinter, name, printers, reply))
          /\ calls' = name_setter_calls(name, printers, reply)
    /\ args' = <<PyStr(name)>>
    /\ result' = Return("Printer.__init__", None)
    /\ UNCHANGED <<printers, job_id, spooldir>>

PrinterSetName(name) ==
    /\ \E reply \in RepliesFor(name, printers) :
          /\ SelfBecomes(name_setter(Self, name, printers, reply))
          /\ calls' = name_setter_calls(name, printers, reply)
    /\ args' = <<PyStr(name)>>
    /\ result' = Return("Printer.name=", None)
    /\ UNCHANGED <<printers, job_id, spooldir>>

\* Printer.valid setter
PrinterSetValid ==
    /\ args' = <<[bool |-> TRUE]>>
    /\ result' = Raise("Printer.valid=", "AttributeError",
                       "Valid is not a writable attribute.")
    /\ calls' = <<>>
    /\ UNCHANGED <<printers, printerVars, job_id, spooldir>>

\* reply is what both conn.getPrinterAttributes(name) calls answer
PrinterStatusResult(reply) ==
    IF valid(p_name, printers)
    THEN LET state == reply["printer-state"]
             reasons == reply["printer-state-reasons"]
         IN  StatusOutput("Printer.status", DictGet(printer_states, state.int), reasons)
    ELSE Return("Printer.status", PyStr(default_message))

PrinterStatusCalls(reply) ==
    IF valid(p_name, printers)
    THEN <<getPrinters(printers),
           Call("getPrinterAttributes", <<PyStr(p_name)>>, reply),
           Call("getPrinterAttributes", <<PyStr(p_name)>>, reply)>>
    ELSE <<getPrinters(printers)>>

PrinterStatus ==
    /\ \E reply \in RepliesFor(p_name, printers) :
          /\ result' = PrinterStatusResult(reply)
          /\ calls' = PrinterStatusCalls(reply)
    /\ args' = <<>>
    /\ UNCHANGED <<printers, printerVars, job_id, spooldir>>

\* validate deciding on what the name setter cached instead of asking again
validate_cached == IF p_attributes = None THEN "NotImplementedError" ELSE ""

\* Printer.validate: what it raises, "" when it returns
validate == IF ~valid(p_name, printers) THEN "NotImplementedError" ELSE ""

\* Gated with the connection call made before validate()
Gated_call_first(op, method, argv, reply) ==
    [out |-> IF reply = IPPError THEN Raise(op, "IPPError", "")
             ELSE IF ~valid(p_name, printers)
                  THEN Raise(op, "NotImplementedError", default_message)
                  ELSE Return(op, reply),
     calls |-> <<Call(method, <<PyStr(p_name)>> \o argv, reply),
                 getPrinters(printers)>>]

\* validate(), then one connection call; argv are the arguments after the
\* name, reply the call's answer
Gated(op, method, argv, reply) ==
    IF validate # ""
    THEN [out |-> Raise(op, validate, default_message),
          calls |-> <<getPrinters(printers)>>]
    ELSE [out |-> IF reply = IPPError THEN Raise(op, "IPPError", "")
                  ELSE Return(op, reply),
          calls |-> <<getPrinters(printers),
                      Call(method, <<PyStr(p_name)>> \o argv, reply)>>]

\* validate() alone: add and export_ppd
GatedOnly(op) ==
    [out |-> IF validate # "" THEN Raise(op, validate, default_message)
             ELSE Return(op, None),
     calls |-> <<getPrinters(printers)>>]

\* the answers that make a difference: one only when the call is not made
AnswersFor(replies) == IF validate # "" THEN {IPPError} ELSE replies

PrinterDelete ==
    /\ \E reply \in AnswersFor(ConnReplies) :
          /\ result' = Gated("Printer.delete", "deletePrinter", <<>>, reply).out
          /\ calls' = Gated("Printer.delete", "deletePrinter", <<>>, reply).calls
          /\ printers' = IF validate = "" /\ reply # IPPError
                         THEN printers \ {p_name} ELSE printers
    /\ args' = <<>>
    /\ UNCHANGED <<printerVars, job_id, spooldir>>

PrinterDisable ==
    /\ \E reply \in AnswersFor(ConnReplies) :
          /\ result' = Gated("Printer.disable", "disablePrinter", <<>>, reply).out
          /\ calls' = Gated("Printer.disable", "disablePrinter", <<>>, reply).calls
    /\ args' = <<>>
    /\ UNCHANGED <<printers, printerVars, job_id, spooldir>>

PrinterEnable ==
    /\ \E reply \in AnswersFor(ConnReplies) :
          /\ result' = Gated("Printer.enable", "enablePrinter", <<>>, reply).out
          /\ calls' = Gated("Printer.enable", "enablePrinter", <<>>, reply).calls
    /\ args' = <<>>
    /\ UNCHANGED <<printers, printerVars, job_id, spooldir>>

PrinterAdd ==
    /\ result' = GatedOnly("Printer.add").out
    /\ calls' = GatedOnly("Printer.add").calls
    /\ args' = <<>>
    /\ UNCHANGED <<printers, printerVars, job_id, spooldir>>

PrinterExportPpd ==
    /\ result' = GatedOnly("Printer.export_ppd").out
    /\ calls' = GatedOnly("Printer.export_ppd").calls
    /\ args' = <<>>
    /\ UNCHANGED <<printers, printerVars, job_id, spooldir>>

\* self.job_id = self.conn.printFile(self.name, filename, title, options)
\* return self.job_id
PrinterPrint ==
    /\ \E filename \in Filenames, reply \in AnswersFor(PrintFileReplies) :
          LET argv == <<PyStr(filename), PyStr("title"), [dict |-> <<>>]>>
              print == Gated("Printer.print", "printFile", argv, reply)
          IN  /\ args' = argv
              /\ result' = print.out
              /\ calls' = print.calls
              /\ p_job_id' = IF print.out.exc = "" THEN print.out.value ELSE p_job_id
    /\ UNCHANGED <<printers, p_name, p_attributes, p_device_uri, p_location,
                   job_id, spooldir>>

(***************************************************************************)
(* The print server, outside the program: queues come and go.              *)
(***************************************************************************)
ServerAddQueue(n) ==
    /\ n \notin printers
    /\ printers' = printers \cup {n}
    /\ UNCHANGED <<printerVars, job_id, spooldir, args, result, calls>>

ServerRemoveQueue(n) ==
    /\ n \in printers
    /\ printers' = printers \ {n}
    /\ UNCHANGED <<printerVars, job_id, spooldir, args, result, calls>>

Init ==
    /\ printers \in SUBSET QueueNames
    /\ \E name \in QueueNames : \E reply \in RepliesFor(name, printers) :
          LET self == name_setter(NewPrinter, name, printers, reply)
          IN  /\ p_name = self.name
              /\ p_job_id = self.job_id
              /\ p_attributes = self.attributes
              /\ p_device_uri = self.device_uri
              /\ p_location = self.location
              /\ args = <<PyStr(name)>>
              /\ calls = name_setter_calls(name, printers, reply)
    /\ job_id \in {PyInt(i) : i \in JobIds}
    /\ spooldir = <<>>
    /\ result = Return("Printer.__init__", None)

Next ==
    \/ CUPSGetJobAttributes
    \/ \E id \in JobIds : JobInit(id)
    \/ JobStatus
    \/ JobCancel
    \/ JobRestart
    \/ \E name \in QueueNames : PrinterInit(name)
    \/ \E name \in QueueNames : PrinterSetName(name)
    \/ PrinterSetValid
    \/ PrinterStatus
    \/ PrinterDelete
    \/ PrinterDisable
    \/ PrinterEnable
    \/ PrinterAdd
    \/ PrinterExportPpd
    \/ PrinterPrint
    \/ \E n \in QueueNames : ServerAddQueue(n)
    \/ \E n \in QueueNames : ServerRemoveQueue(n)

Spec == Init /\ [][Next]_vars
(***************************************************************************)
(* Properties of Spec                                                      *)
(***************************************************************************)
JobErrors == {"JobNotFoundError", "JobCompletedError", "JobDocumentNotAvailableError"}

\* the error of each Job operation and the message it carries
JobErrorOf(op) ==
    CASE op = "Job.status" -> "JobNotFoundError"
      [] op = "Job.cancel" -> "JobCompletedError"
      [] op = "Job.restart" -> "JobDocumentNotAvailableError"

JobMessageOf(op, id) ==
    CASE op = "Job.status" -> "Job " \o ToString(id) \o " does not exist."
      [] op = "Job.cancel" -> "Job " \o ToString(id) \o " has been completed."
      [] op = "Job.restart" -> "Job's " \o ToString(id) \o " document does not exist."

\* C1: when the connection call of Job.status, Job.cancel or Job.restart
\* fails with IPPError the operation raises its own error (job-not-found,
\* job-completed, job-document-unavailable) with only a message naming the
\* job id; when the call succeeds the operation raises none of the three.
C1_JobErrorTranslation ==
    result.op \in {"Job.status", "Job.cancel", "Job.restart"} =>
        IF calls[1].reply = IPPError
        THEN result = Raise(result.op, JobErrorOf(result.op),
                            JobMessageOf(result.op, job_id.int))
        ELSE result.exc \notin JobErrors

C1_Witness ==
    /\ result.op = "Job.restart"
    /\ calls[1].reply = IPPError
    /\ result.exc = "JobDocumentNotAvailableError"
    /\ result.msg = "Job's 2 document does not exist."

GatedOps ==
    {"Printer.delete", "Printer.disable", "Printer.enable", "Printer.print",
     "Printer.add", "Printer.export_ppd"}

\* C2: when the Printer's name is not among the queue names the connection
\* reports, delete, disable, enable, print, add and export_ppd fail with
\* PrinterNotFoundError.
C2_PrinterNotFound ==
    (result.op \in GatedOps /\ p_name \notin calls[1].reply.set) =>
        result.exc = "PrinterNotFoundError"

JobLabel(code) ==
    CASE code = 3 -> "Pending"
      [] code = 4 -> "Pending-held"
      [] code = 5 -> "Processing"
      [] code = 6 -> "Processing-stopped"
      [] code = 7 -> "Canceled"
      [] code = 8 -> "Aborted"
      [] code = 9 -> "Completed"

PrinterLabel(code) ==
    CASE code = 3 -> "Idle"
      [] code = 4 -> "Processing"
      [] code = 5 -> "Stopped"

\* the status operation answered from attributes the connection gave
JobStatusAnswered == result.op = "Job.status" /\ calls[1].reply # IPPError
PrinterStatusAnswered == result.op = "Printer.status" /\ Len(calls) = 3

Translated(label, reasons) ==
    /\ result.exc = ""
    /\ (result.value = PyStr(label)) <=> (reasons = PyList(<<"none">>))
    /\ reasons # PyList(<<"none">>) =>
           result.value = PyStr(label \o " - " \o Format(reasons))

\* C3: for a job-state code in 3..9 Job.status returns the fixed label of the
\* code, and for a valid printer with a printer-state code in 3..5
\* Printer.status returns the fixed label of the code; the label alone
\* exactly when the state-reasons value equals ['none'], otherwise the label
\* followed by " - " and the reasons value.
C3_StatusTranslation ==
    /\ (JobStatusAnswered /\ calls[1].reply["job-state"].int \in 3..9) =>
           Translated(JobLabel(calls[1].reply["job-state"].int),
                      calls[1].reply["job-state-reasons"])
    /\ (PrinterStatusAnswered /\ calls[2].reply["printer-state"].int \in 3..5) =>
           Translated(PrinterLabel(calls[2].reply["printer-state"].int),
                      calls[3].reply["printer-state-reasons"])

C3_Witness ==
    /\ result.op = "Printer.status"
    /\ result.value = PyStr("Stopped - ['paused']")

\* C5: after construction and after an assignment to Printer.name,
\* attributes, device_uri and location are what the connection reports for
\* the current name when it is a known queue, and None when it is not.
C5_CacheMirrorsCurrentName ==
    result.op \in {"Printer.__init__", "Printer.name="} =>
        IF p_name \in calls[1].reply.set
        THEN /\ p_attributes = calls[2].reply
             /\ p_device_uri = PyStr(DeviceUri(p_name))
             /\ p_location = PyStr(Location(p_name))
        ELSE /\ p_attributes = None
             /\ p_device_uri = None
             /\ p_location = None

\* int(v) succeeds
ConvertibleToInt(v) == IsInt(v) \/ (IsStr(v) /\ v.str \in {"1"})
IntOf(v) == IF IsInt(v) THEN v.int ELSE 1

\* C6: CUPS.get_job_attributes of a job id convertible to an integer returns
\* what the connection's getJobAttributes answers for that integer, and of a
\* job id that is not convertible raises ValueError without calling the
\* connection.
C6_GetJobAttributes ==
    (result.op = "CUPS.get_job_attributes" /\ Len(args) = 1) =>
        IF ConvertibleToInt(args[1])
        THEN /\ Len(calls) = 1
             /\ calls[1].method = "getJobAttributes"
             /\ calls[1].args = <<PyInt(IntOf(args[1]))>>
             /\ result = Return("CUPS.get_job_attributes", calls[1].reply)
        ELSE /\ result.exc = "ValueError"
             /\ calls = <<>>

\* C7: when the job-state code is outside 3..9, or the printer-state code of
\* a valid printer outside 3..5, the status operation returns
\* 'Not detected.' whatever the state-reasons, and does not raise.
C7_NotDetected ==
    /\ (JobStatusAnswered /\ calls[1].reply["job-state"].int \notin 3..9) =>
           result = Return("Job.status", PyStr("Not detected."))
    /\ (PrinterStatusAnswered /\ calls[2].reply["printer-state"].int \notin 3..5) =>
           result = Return("Printer.status", PyStr("Not detected."))

GatedMethods == {"deletePrinter", "disablePrinter", "enablePrinter", "printFile"}
GatedCalls(cs) == {i \in DOMAIN cs : cs[i].method \in GatedMethods}

\* the step is a step of the operation op, whose action is A
IsStep(op, A) == result'.op = op /\ A

\* a step of an operation gated by validate(), method its connection call
Gating(method) ==
    IF p_name \notin printers
    THEN /\ result'.exc # ""
         /\ GatedCalls(calls') = {}
         /\ UNCHANGED <<printers, p_job_id, p_attributes, p_device_uri, p_location>>
    ELSE /\ Cardinality(GatedCalls(calls')) = 1
         /\ \A i \in GatedCalls(calls') :
               /\ calls'[i].method = method
               /\ calls'[i].args[1] = PyStr(p_name)

PrintStores ==
    p_name \in printers =>
        \A i \in GatedCalls(calls') :
            calls'[i].reply # IPPError =>
                /\ result' = Return("Printer.print", calls'[i].reply)
                /\ p_job_id' = calls'[i].reply

\* C8: when the Printer's name is not a known queue, delete, disable, enable
\* and print raise before any deletePrinter, disablePrinter, enablePrinter or
\* printFile call and leave job_id, attributes, device_uri and location as
\* they were; when it is a known queue each makes exactly one such call, with
\* the Printer's own name, and print returns the job id printFile gives and
\* stores it in job_id.
C8_ValidityGating ==
    [][/\ IsStep("Printer.delete", PrinterDelete) => Gating("deletePrinter")
       /\ IsStep("Printer.disable", PrinterDisable) => Gating("disablePrinter")
       /\ IsStep("Printer.enable", PrinterEnable) => Gating("enablePrinter")
       /\ IsStep("Printer.print", PrinterPrint) =>
              (Gating("printFile") /\ PrintStores)]_vars

C8_Witness ==
    /\ result.op = "Printer.print"
    /\ result.exc # ""
    /\ calls = <<getPrinters(printers)>>
    /\ p_name \notin printers
    /\ p_job_id = PyInt(2)
    /\ p_attributes # None

\* C9: validity is read from the connection at every use: while the
\* Printer's name is not in the connection's queue list (after its own
\* delete() or a removal outside the program) delete, disable, enable and
\* print raise and status returns 'Unable to locate the printer.'; an
\* assignment to Printer.valid raises AttributeError and changes nothing.
C9_ValidityReRead ==
    [][/\ p_name \notin printers =>
             /\ (\/ IsStep("Printer.delete", PrinterDelete)
                 \/ IsStep("Printer.disable", PrinterDisable)
                 \/ IsStep("Printer.enable", PrinterEnable)
                 \/ IsStep("Printer.print", PrinterPrint)) =>
                    result'.exc # ""
             /\ IsStep("Printer.status", PrinterStatus) =>
                    result' = Return("Printer.status",
                                     PyStr("Unable to locate the printer."))
       /\ IsStep("Printer.valid=", PrinterSetValid) =>
             /\ result'.exc = "AttributeError"
             /\ UNCHANGED <<printers, printerVars, job_id>>]_vars

C9_Witness ==
    /\ result.op = "Printer.delete"
    /\ result.exc # ""
    /\ p_name \notin printers
    /\ p_attributes # None
    /\ p_device_uri = PyStr(DeviceUri(p_name))

(***************************************************************************)
(* Job.list over the spool directories of the bounds.                      *)
(***************************************************************************)
InitList ==
    /\ printers = {}
    /\ p_name = "A"
    /\ p_job_id = None
    /\ p_attributes = None
    /\ p_device_uri = None
    /\ p_location = None
    /\ job_id = PyInt(1)
    /\ \E k \in 0..MaxEntries : spooldir \in [1..k -> FileNames]
    /\ IsSpoolDir(spooldir)
    /\ args = <<PyStr("A")>>
    /\ result = Return("Printer.__init__", None)
    /\ calls = <<getPrinters({})>>

NextList == JobList

SpecList == InitList /\ [][NextList]_vars
(***************************************************************************)
(* Properties of SpecList                                                  *)
(***************************************************************************)
\* c followed by the digits, zero-padded or not, of a job id n >= 1
IsControlFileName(name) ==
    /\ Len(name) >= 2
    /\ name[1] = "c"
    /\ \A i \in 2..Len(name) : name[i] \in Digits
    /\ DecimalValue(Tail(name)) >= 1

CEntries == SelectSeq(spooldir, LAMBDA name : Head(name) = "c")

C10_JobListTotal ==
    result.op = "Job.list" =>
        /\ result.exc = ""
        /\ \A i \in DOMAIN result.value.list : IsInt(result.value.list[i])
====
